---- MODULE Spec2Model ----
(***************************************************************************)
(* A state-machine model of app/static/js/dashboard.js: the rolling        *)
(* telemetry history, the four charts, the update cycle with its two       *)
(* awaits, and the demo action buttons.                                    *)
(***************************************************************************)
EXTENDS Integers, Sequences, FiniteSets, TLC

VARIABLES
    systemHistory,      \* dashboard.js:3, the rolling history buffer
    maxHistoryPoints,   \* dashboard.js:4, the current bound of the buffer
    performanceChart,   \* dashboard.js:2, line chart: labels + 4 datasets
    resourceChart,      \* dashboard.js:2, doughnut: 4 fixed labels + 1 dataset
    appPerformanceChart,\* dashboard.js:2, line chart: labels + 2 datasets
    networkChart,       \* dashboard.js:2, line chart: labels + 2 datasets
    dom,                \* the element ids the host page provides
    statusBadge,        \* innerHTML of #status-badge
    slots,              \* textContent of the metric cards and the uptime slots
    cycles,             \* the calls of updateEnhancedDashboard, by trigger order
    resolved,           \* the order in which the fetch() promises fulfilled
    timers,             \* pending setTimeout(updateEnhancedDashboard, 500)
    now,                \* the wall clock, in seconds since the page was loaded
    served,             \* how many snapshots were asked for since the initial state
    telemetry,          \* the snapshot the handler under study was given last
    button,             \* the three demo controls: disabled flag and innerHTML
    traffic,            \* the running generateTraffic call
    work,               \* the running simulateWork call
    stress,             \* the running stressTest call
    lastToast,          \* the banner showToast appended last
    lastOp              \* the operation that last wrote the buffer, the bound,
                        \* a chart or a slot (history variable)

vars == <<systemHistory, maxHistoryPoints, performanceChart, resourceChart,
          appPerformanceChart, networkChart, dom, statusBadge, slots, cycles,
          resolved, timers, now, served, telemetry, button, traffic, work,
          stress, lastToast, lastOp>>

(***************************************************************************)
(* Bounds of the model                                                     *)
(***************************************************************************)
\* storeSystemHistory calls explored in the history specification
MaxRecords == 152
\* the largest day count of an uptime given to formatUptime
MaxDays == 1
\* update cycles triggered after the initial state of the dashboard specification
MaxCycles == 2
\* the largest count given to generateTraffic on its own
MaxCount == 26
\* the largest count given to generateTraffic beside the other two controls
MaxBurst == 2
\* calls of generateTraffic in one behaviour
MaxBatches == 1
\* requests of failed stress tests that may be outstanding when the stress
\* test is started again, less those of one failed test
MaxOrphans == 0
\* the percentages given to the resource chart are the PercentGrid + 1 evenly
\* spread values of 0..100
PercentGrid == 20

(***************************************************************************)
(* Program constants                                                       *)
(***************************************************************************)
InitialHistoryPoints == 50
HistoryPoints1m == 20
HistoryPoints5m == 50
HistoryPoints15m == 150
ResourceBudget == 300
\* generateTraffic(count = 25)
DefaultCount == 25
\* for (let i = 0; i < 5; i++) in stressTest
StressRequests == 5

Min(a, b) == IF a < b THEN a ELSE b
Max(a, b) == IF a > b THEN a ELSE b

\* Array.prototype.slice(-n) for n > 0: the last n elements, all when n >= length
SliceLast(s, n) == IF n >= Len(s) THEN s ELSE SubSeq(s, Len(s) - n + 1, Len(s))

\* Array.prototype.map
Map(s, F(_)) == [i \in 1..Len(s) |-> F(s[i])]

(***************************************************************************)
(* Snapshots: the JSON body of GET /api/dashboard-data                     *)
(***************************************************************************)
\* The k-th snapshot the backend serves.  The byte counters are cumulative,
\* so they tell the snapshots apart; app.cpu_percent is optional.
Feed(k) ==
    [system |-> [cpu_percent |-> (7 * k) % 101,
                 memory_percent |-> (3 * k + 40) % 101,
                 disk_percent |-> 60,
                 network_bytes_sent |-> 1000 * k,
                 network_bytes_recv |-> 2000 * k,
                 uptime_seconds |-> 3600 + k],
     app |-> IF k % 3 = 0
             THEN [memory_usage_mb |-> 100 + k,
                   active_connections |-> k % 4,
                   uptime_seconds |-> k]
             ELSE [memory_usage_mb |-> 100 + k,
                   cpu_percent |-> k % 5,
                   active_connections |-> k % 4,
                   uptime_seconds |-> k]]

NoTelemetry == Feed(0)

\* the value read from a property the body lacks
Undefined == -1
\* the sum of numbers and undefined, and Math.max(0, NaN)
NaN == -2

\* a snapshot whose system record lacks cpu_percent
WithoutCpu(data) == [data EXCEPT !.system.cpu_percent = Undefined]

(***************************************************************************)
(* Charts                                                                  *)
(***************************************************************************)
ChartIds == {"performanceChart", "resourceChart", "appPerformanceChart", "networkChart"}
\* the text slots kept: the three percentage cards, the two uptimes and the
\* resource summary (the other cards and slots are written the same way from
\* fields not kept)
SlotIds ==
    {"cpu-usage", "memory-usage", "disk-usage", "system-uptime", "app-uptime",
     "resource-cpu", "resource-memory", "resource-disk"}
AllIds == ChartIds \cup SlotIds \cup {"status-badge"}

\* new Chart(...) in setupEnhancedPerformanceChart
NewPerformanceChart == [labels |-> <<>>, datasets |-> <<<<>>, <<>>, <<>>, <<>>>>]
\* new Chart(...) in setupEnhancedResourceChart
NewResourceChart ==
    [labels |-> <<"CPU Usage", "Memory Usage", "Disk Usage", "Available">>,
     datasets |-> <<<<0, 0, 0, 100>>>>]
\* new Chart(...) in setupAppPerformanceChart
NewAppPerformanceChart == [labels |-> <<>>, datasets |-> <<<<>>, <<>>>>]
\* new Chart(...) in setupNetworkChart
NewNetworkChart == [labels |-> <<>>, datasets |-> <<<<>>, <<>>>>]

\* data.labels = []; data.datasets.forEach(dataset => dataset.data = [])
Emptied(chart) == [labels |-> <<>>, datasets |-> [i \in DOMAIN chart.datasets |-> <<>>]]

(***************************************************************************)
(* showToast                                                               *)
(***************************************************************************)
Toast(message, type) == [message |-> message, type |-> type]
NoToast == Toast("", "none")

(***************************************************************************)
(* storeSystemHistory                                                      *)
(***************************************************************************)
\* new Date().toLocaleTimeString(): the clock is kept in whole seconds, the
\* resolution of the label, so two points of one second share a label
toLocaleTimeString(t) == t

\* data.app.cpu_percent || 0
AppCpuOrZero(data) ==
    IF "cpu_percent" \in DOMAIN data.app THEN data.app.cpu_percent ELSE 0

HistoryPoint(data, t) ==
    [timestamp |-> toLocaleTimeString(t),
     cpu |-> data.system.cpu_percent,
     memory |-> data.system.memory_percent,
     disk |-> data.system.disk_percent,
     app_memory |-> data.app.memory_usage_mb,
     app_cpu |-> AppCpuOrZero(data),
     connections |-> data.app.active_connections,
     network_sent |-> data.system.network_bytes_sent,
     network_recv |-> data.system.network_bytes_recv]

\* mutant: pop() in place of shift(), the newest point is dropped
PushBounded_pop(history, p, bound) ==
    LET pushed == Append(history, p)
    IN  IF Len(pushed) > bound THEN SubSeq(pushed, 1, Len(pushed) - 1) ELSE pushed

\* systemHistory.push(p); if (length > maxHistoryPoints) systemHistory.shift()
PushBounded(history, p, bound) ==
    LET pushed == Append(history, p)
    IN  IF Len(pushed) > bound THEN Tail(pushed) ELSE pushed

\* mutant: a snapshot taken in the second of the newest point is taken for
\* a duplicate and not recorded
StoredHistory_dedup(history, data, t, bound) ==
    IF history # <<>> /\ history[Len(history)].timestamp = toLocaleTimeString(t)
    THEN history
    ELSE PushBounded(history, HistoryPoint(data, t), bound)

\* mutant: a snapshot that lacks cpu_percent is not recorded
StoredHistory_validated(history, data, t, bound) ==
    IF data.system.cpu_percent = Undefined THEN history
    ELSE PushBounded(history, HistoryPoint(data, t), bound)

\* the buffer after storeSystemHistory(data)
StoredHistory(history, data, t, bound) == PushBounded(history, HistoryPoint(data, t), bound)

(***************************************************************************)
(* updateChartTimeRange                                                    *)
(***************************************************************************)
\* the values of the ambient timeRange: the three of the switch and another
TimeRanges == {"1m", "5m", "15m", "1h"}

\* the switch on the ambient timeRange; other values leave the bound alone
BoundFor(timeRange, bound) ==
    CASE timeRange = "1m" -> HistoryPoints1m
      [] timeRange = "5m" -> HistoryPoints5m
      [] timeRange = "15m" -> HistoryPoints15m
      [] OTHER -> bound

\* mutant: the trim is forgotten
Trimmed_none(history, bound) == history

\* mutant: slice(0, max) in place of slice(-max), the oldest points are kept
Trimmed_oldest(history, bound) ==
    IF Len(history) > bound THEN SubSeq(history, 1, bound) ELSE history

\* if (systemHistory.length > maxHistoryPoints) systemHistory = systemHistory.slice(-max)
Trimmed(history, bound) ==
    IF Len(history) > bound THEN SliceLast(history, bound) ELSE history

(***************************************************************************)
(* formatUptime and updateSystemInformation                                *)
(***************************************************************************)
\* Math.floor(a / b) for a >= 0, b > 0
Floor(a, b) == a \div b

\* mutant: the hours are not reduced modulo one day
formatUptime_totalHours(seconds) ==
    LET days == Floor(seconds, 86400)
        hours == Floor(seconds, 3600)
        minutes == Floor(seconds % 3600, 60)
    IN  IF days > 0 THEN ToString(days) \o "d " \o ToString(hours) \o "h"
        ELSE IF hours > 0 THEN ToString(hours) \o "h " \o ToString(minutes) \o "m"
        ELSE ToString(minutes) \o "m"

formatUptime(seconds) ==
    LET days == Floor(seconds, 86400)
        hours == Floor(seconds % 86400, 3600)
        minutes == Floor(seconds % 3600, 60)
    IN  IF days > 0 THEN ToString(days) \o "d " \o ToString(hours) \o "h"
        ELSE IF hours > 0 THEN ToString(hours) \o "h " \o ToString(minutes) \o "m"
        ELSE ToString(minutes) \o "m"

\* if (el) el.textContent = text: an absent element is skipped
Written(old, id, text) == IF id \in dom THEN [old EXCEPT ![id] = text] ELSE old

\* value.toFixed(1) + '%' of a whole percentage
Percentage(value) == ToString(value) \o ".0%"

\* value.toFixed(1) raises a TypeError when the value is undefined
ToFixedThrows(value) == value = Undefined

RECURSIVE PercentagesWritten(_, _, _)
\* if (el) el.textContent = `${data.system[field].toFixed(1)}%`, for the
\* targets in statement order: an absent element is skipped without reading
\* the field; the first toFixed that throws ends the function, the writes
\* before it stay
PercentagesWritten(old, data, targets) ==
    IF targets = <<>> THEN [slots |-> old, thrown |-> FALSE]
    ELSE LET id == Head(targets).id
             value == data.system[Head(targets).field]
         IN  IF id \notin dom THEN PercentagesWritten(old, data, Tail(targets))
             ELSE IF ToFixedThrows(value) THEN [slots |-> old, thrown |-> TRUE]
             ELSE PercentagesWritten([old EXCEPT ![id] = Percentage(value)],
                                     data, Tail(targets))

\* the percentage statements of updateEnhancedMetricCards
CardTargets ==
    <<[id |-> "cpu-usage", field |-> "cpu_percent"],
      [id |-> "memory-usage", field |-> "memory_percent"],
      [id |-> "disk-usage", field |-> "disk_percent"]>>

\* updateEnhancedMetricCards(data): the cards written, and whether it threw
CardsWritten(old, data) == PercentagesWritten(old, data, CardTargets)

\* the percentage cards after updateEnhancedMetricCards(data)
MetricCards(old, data) == CardsWritten(old, data).slots

\* the uptime slots after updateSystemInformation(data)
SystemInformation(old, data) ==
    Written(Written(old, "system-uptime", formatUptime(data.system.uptime_seconds)),
            "app-uptime", formatUptime(data.app.uptime_seconds))

(***************************************************************************)
(* updateAllCharts                                                         *)
(***************************************************************************)
Timestamp(h) == h.timestamp
Cpu(h) == h.cpu
Memory(h) == h.memory
Disk(h) == h.disk
AppMemory(h) == h.app_memory
AppCpu(h) == h.app_cpu
Connections(h) == h.connections
NetworkSent(h) == h.network_sent
NetworkRecv(h) == h.network_recv

RedrawnPerformance(chart, history) ==
    IF "performanceChart" \in dom /\ Len(history) > 0
    THEN [labels |-> Map(history, Timestamp),
          datasets |-> <<Map(history, Cpu), Map(history, Memory),
                         Map(history, Disk), Map(history, AppMemory)>>]
    ELSE chart

\* mutant: the remainder is taken of one 100-point scale, as in the chart's
\* initial data [0, 0, 0, 100]
Available_of100(data) ==
    LET total == data.system.cpu_percent + data.system.memory_percent
                 + data.system.disk_percent
    IN  Max(0, 100 - total)

\* a + b + c of JavaScript: NaN as soon as one operand is undefined
Sum(a, b, c) == IF Undefined \in {a, b, c} THEN NaN ELSE a + b + c

\* Math.max(0, 300 - total); NaN when the total is NaN
Available(data) ==
    LET total == Sum(data.system.cpu_percent, data.system.memory_percent,
                     data.system.disk_percent)
    IN  IF total = NaN THEN NaN ELSE Max(0, ResourceBudget - total)

RedrawnResource(chart, data) ==
    IF "resourceChart" \in dom
    THEN [chart EXCEPT !.datasets[1] =
            <<data.system.cpu_percent, data.system.memory_percent,
              data.system.disk_percent, Available(data)>>]
    ELSE chart

RedrawnAppPerformance(chart, history) ==
    IF "appPerformanceChart" \in dom /\ Len(history) > 0
    THEN [labels |-> Map(history, Timestamp),
          datasets |-> <<Map(history, AppCpu), Map(history, Connections)>>]
    ELSE chart

RedrawnNetwork(chart, history) ==
    IF "networkChart" \in dom /\ Len(history) > 0
    THEN [labels |-> Map(history, Timestamp),
          datasets |-> <<Map(history, NetworkSent), Map(history, NetworkRecv)>>]
    ELSE chart

\* the statements of the resource summary
SummaryTargets ==
    <<[id |-> "resource-cpu", field |-> "cpu_percent"],
      [id |-> "resource-memory", field |-> "memory_percent"],
      [id |-> "resource-disk", field |-> "disk_percent"]>>

\* the resource summary, written inside if (resourceChart) after the chart is
\* updated, and whether it threw
ResourceSummary(old, data) ==
    IF "resourceChart" \in dom THEN PercentagesWritten(old, data, SummaryTargets)
    ELSE [slots |-> old, thrown |-> FALSE]

\* mutant: the charts are redrawn before the snapshot is stored
BufferAtRedraw_beforeStore(before, after) == before

\* updateAllCharts reads the global systemHistory when it is called, after
\* storeSystemHistory returned
BufferAtRedraw(before, after) == after

\* updateAllCharts(data) that does not throw, reading the buffer `history`;
\* `shown` are the slots as the statements before it left them
UpdateAllCharts(data, history, shown) ==
    /\ performanceChart' = RedrawnPerformance(performanceChart, history)
    /\ resourceChart' = RedrawnResource(resourceChart, data)
    /\ slots' = ResourceSummary(shown, data).slots
    /\ appPerformanceChart' = RedrawnAppPerformance(appPerformanceChart, history)
    /\ networkChart' = RedrawnNetwork(networkChart, history)

\* updateAllCharts(data) that throws in the resource summary: the performance
\* and the resource chart are redrawn, the other two are not reached
UpdateAllChartsThrown(data, history, shown) ==
    /\ performanceChart' = RedrawnPerformance(performanceChart, history)
    /\ resourceChart' = RedrawnResource(resourceChart, data)
    /\ slots' = ResourceSummary(shown, data).slots
    /\ UNCHANGED <<appPerformanceChart, networkChart>>

(***************************************************************************)
(* clearData                                                               *)
(***************************************************************************)
\* mutant: the labels are reset, the datasets are not
ClearedChart_labelsOnly(id, chart) ==
    IF id \in dom THEN [chart EXCEPT !.labels = <<>>] ELSE chart

ClearedChart(id, chart) == IF id \in dom THEN Emptied(chart) ELSE chart

ClearedCharts ==
    /\ performanceChart' = ClearedChart("performanceChart", performanceChart)
    /\ appPerformanceChart' = ClearedChart("appPerformanceChart", appPerformanceChart)
    /\ networkChart' = ClearedChart("networkChart", networkChart)
    /\ resourceChart' = resourceChart

demoVars == <<button, traffic, work, stress, timers>>
cycleVars == <<cycles, resolved>>
chartVars == <<performanceChart, resourceChart, appPerformanceChart, networkChart>>

ClearData ==
    /\ systemHistory' = <<>>
    /\ ClearedCharts
    /\ lastToast' = Toast("Chart data cleared!", "info")
    /\ lastOp' = "clearData"
    /\ UNCHANGED <<maxHistoryPoints, dom, statusBadge, slots, cycleVars, now,
                   served, telemetry, demoVars>>

\* mutant: the time-series charts are redrawn from the trimmed buffer
UpdateChartTimeRange_redrawn(timeRange) ==
    /\ maxHistoryPoints' = BoundFor(timeRange, maxHistoryPoints)
    /\ systemHistory' = Trimmed(systemHistory, maxHistoryPoints')
    /\ performanceChart' = RedrawnPerformance(performanceChart, systemHistory')
    /\ appPerformanceChart' = RedrawnAppPerformance(appPerformanceChart, systemHistory')
    /\ networkChart' = RedrawnNetwork(networkChart, systemHistory')
    /\ lastToast' = Toast("Time range set to " \o timeRange, "info")
    /\ lastOp' = "updateChartTimeRange"
    /\ UNCHANGED <<resourceChart, dom, statusBadge, slots, cycleVars, now, served,
                   telemetry, demoVars>>

UpdateChartTimeRange(timeRange) ==
    /\ maxHistoryPoints' = BoundFor(timeRange, maxHistoryPoints)
    /\ systemHistory' = Trimmed(systemHistory, maxHistoryPoints')
    /\ lastToast' = Toast("Time range set to " \o timeRange, "info")
    /\ lastOp' = "updateChartTimeRange"
    /\ UNCHANGED <<chartVars, dom, statusBadge, slots, cycleVars, now, served,
                   telemetry, demoVars>>

\* storeSystemHistory called with the next snapshot of the feed
StoreSystemHistory ==
    /\ served < MaxRecords
    /\ served' = served + 1
    /\ telemetry' = Feed(served')
    /\ systemHistory' = StoredHistory(systemHistory, telemetry', now, maxHistoryPoints)
    /\ lastOp' = "storeSystemHistory"
    /\ UNCHANGED <<maxHistoryPoints, chartVars, dom, statusBadge, slots, cycleVars,
                   now, demoVars, lastToast>>

(***************************************************************************)
(* The state after the script is loaded and the charts are set up, and,    *)
(* when timeRange is not "", updateChartTimeRange ran once                 *)
(***************************************************************************)
\* a control of the page, as its markup gives it
IdleButton == [disabled |-> FALSE, innerHTML |-> "original"]
\* the controls whose handlers read event.target, named by their handler
Controls == {"generateTraffic", "simulateWork", "stressTest"}
\* the locals of the three async handlers while no call is running
IdleTraffic ==
    [pc |-> "idle", count |-> 0, originalText |-> "", promises |-> <<>>,
     pending |-> 0, rejected |-> 0]
IdleWork == [pc |-> "idle", originalText |-> ""]
IdleStress == [pc |-> "idle", originalText |-> "", pending |-> 0, orphans |-> 0]

Loaded(elements, snapshot, timeRange) ==
    /\ systemHistory = <<>>
    /\ maxHistoryPoints = BoundFor(timeRange, InitialHistoryPoints)
    /\ performanceChart = NewPerformanceChart
    /\ resourceChart = NewResourceChart
    /\ appPerformanceChart = NewAppPerformanceChart
    /\ networkChart = NewNetworkChart
    /\ dom = elements
    /\ statusBadge = "initial"
    /\ slots = [id \in SlotIds |-> ""]
    /\ cycles = <<>>
    /\ resolved = <<>>
    /\ timers = 0
    /\ now = 0
    /\ served = 0
    /\ telemetry = snapshot
    /\ button = [c \in Controls |-> IdleButton]
    /\ traffic = IdleTraffic
    /\ work = IdleWork
    /\ stress = IdleStress
    /\ lastToast = IF timeRange = "" THEN NoToast
                   ELSE Toast("Time range set to " \o timeRange, "info")
    /\ lastOp = IF timeRange = "" THEN "load" ELSE "updateChartTimeRange"

(***************************************************************************)
(* SpecHistory: the buffer under storeSystemHistory, updateChartTimeRange  *)
(* and clearData, called in any order                                      *)
(***************************************************************************)
InitHistory == Loaded(AllIds, NoTelemetry, "")

NextHistory ==
    \/ StoreSystemHistory
    \/ \E timeRange \in TimeRanges : UpdateChartTimeRange(timeRange)
    \/ ClearData

SpecHistory == InitHistory /\ [][NextHistory]_vars

\* C1: in every state reached by storeSystemHistory, updateChartTimeRange and
\* clearData from the empty buffer with bound 50, the buffer is no longer
\* than the current bound.
C1_LengthWithinBound == Len(systemHistory) <= maxHistoryPoints

\* the buffer sits exactly at the lowest bound after a time-range change that
\* followed more stores than that bound admits
C1_Witness ==
    /\ lastOp = "updateChartTimeRange"
    /\ maxHistoryPoints = HistoryPoints1m
    /\ Len(systemHistory) = HistoryPoints1m
    /\ served > HistoryPoints5m
    /\ systemHistory[1].network_sent = 1000 * (served - HistoryPoints1m + 1)

\* the points of the feed numbered from..to, as storeSystemHistory records them
Recorded(from, to) == [i \in 1..(to - from + 1) |-> HistoryPoint(Feed(from + i - 1), now)]

(***************************************************************************)
(* SpecStores: storeSystemHistory alone, on the empty buffer under each    *)
(* of the three bounds                                                     *)
(***************************************************************************)
InitStores == \E timeRange \in {"1m", "5m", "15m"} : Loaded(AllIds, NoTelemetry, timeRange)

SpecStores == InitStores /\ [][StoreSystemHistory]_vars

\* C2: after N consecutive stores on an empty buffer with a fixed bound B the
\* buffer holds exactly min(N, B) points: the last min(N, B) snapshots
\* recorded, in the order they were recorded.
C2_LastMinNB ==
    LET N == served
        B == maxHistoryPoints
    IN  /\ B \in {20, 50, 150}
        /\ Len(systemHistory) = Min(N, B)
        /\ systemHistory = Recorded(N - Min(N, B) + 1, N)

\* more stores than the largest bound admits: the oldest points are gone
C2_Witness ==
    /\ maxHistoryPoints = 150
    /\ served = 152
    /\ systemHistory[1].network_sent = 3000
    /\ lastOp = "storeSystemHistory"

\* the time range the last updateChartTimeRange was called with
ChosenRange(toast, timeRange) == toast.message = "Time range set to " \o timeRange

\* C3: a lowered bound leaves the newest min(length, bound) entries in their
\* order; a raised or unchanged bound (also an unrecognized timeRange) leaves
\* the buffer as it was; the bound is 20 for 1m, 50 for 5m and at the start,
\* 150 for 15m, and nothing else.
C3_TimeRange ==
    /\ [](maxHistoryPoints \in {HistoryPoints1m, HistoryPoints5m, HistoryPoints15m})
    /\ [][lastOp' = "updateChartTimeRange" =>
            /\ ChosenRange(lastToast', "1m") => maxHistoryPoints' = 20
            /\ ChosenRange(lastToast', "5m") => maxHistoryPoints' = 50
            /\ ChosenRange(lastToast', "15m") => maxHistoryPoints' = 150
            /\ ChosenRange(lastToast', "1h") => maxHistoryPoints' = maxHistoryPoints
            /\ maxHistoryPoints' < maxHistoryPoints =>
                  LET n == Min(Len(systemHistory), maxHistoryPoints')
                  IN  /\ Len(systemHistory') = n
                      /\ \A i \in 1..n :
                            systemHistory'[i] = systemHistory[Len(systemHistory) - n + i]
            /\ maxHistoryPoints' >= maxHistoryPoints => systemHistory' = systemHistory
       ]_vars

\* the bound was lowered to 20 under a longer buffer
C3_Witness ==
    /\ lastOp = "updateChartTimeRange"
    /\ ChosenRange(lastToast, "1m")
    /\ Len(systemHistory) = HistoryPoints1m
    /\ served = HistoryPoints5m
    /\ systemHistory[1].network_sent = 1000 * (HistoryPoints5m - HistoryPoints1m + 1)

(***************************************************************************)
(* SpecUptime: updateSystemInformation on snapshots of every uptime        *)
(***************************************************************************)
SecondsOfMinute == {0, 1, 5, 59}

UptimeInputs ==
    {d * 86400 + h * 3600 + m * 60 + sec :
        d \in 0..MaxDays, h \in 0..23, m \in 0..59, sec \in SecondsOfMinute}

UptimeExamples == {0, 65, 3661, 90061}

WithUptimes(sys, app) ==
    [Feed(1) EXCEPT !.system.uptime_seconds = sys, !.app.uptime_seconds = app]

UpdateSystemInformation ==
    /\ slots' = SystemInformation(slots, telemetry)
    /\ lastOp' = "updateSystemInformation"
    /\ UNCHANGED <<systemHistory, maxHistoryPoints, chartVars, dom, statusBadge,
                   cycleVars, now, served, telemetry, demoVars, lastToast>>

InitUptime ==
    \E sys \in UptimeInputs, app \in UptimeExamples :
        Loaded(AllIds, WithUptimes(sys, app), "")

SpecUptime == InitUptime /\ [][UpdateSystemInformation]_vars

\* the day, hour and minute counts of an uptime
UnitsOf(seconds) ==
    LET d == seconds \div 86400
        h == (seconds - d * 86400) \div 3600
        m == (seconds - d * 86400 - h * 3600) \div 60
    IN  <<[value |-> d, unit |-> "d"], [value |-> h, unit |-> "h"],
          [value |-> m, unit |-> "m"]>>

Printed(u) == ToString(u.value) \o u.unit

\* the largest two non-zero units, "0m" when there is none
TwoLargestNonZero(seconds) ==
    LET nz == SelectSeq(UnitsOf(seconds), LAMBDA u : u.value > 0)
    IN  IF Len(nz) = 0 THEN "0m"
        ELSE IF Len(nz) = 1 THEN Printed(nz[1])
        ELSE Printed(nz[1]) \o " " \o Printed(nz[2])

\* the leading unit among days and hours with the unit next below it, zero
\* or not; the minutes alone when there are neither days nor hours
LeadingUnitAndNext(seconds) ==
    LET u == UnitsOf(seconds)
    IN  IF u[1].value > 0 THEN Printed(u[1]) \o " " \o Printed(u[2])
        ELSE IF u[2].value > 0 THEN Printed(u[2]) \o " " \o Printed(u[3])
        ELSE Printed(u[3])

UptimeShown ==
    /\ lastOp = "updateSystemInformation"
    /\ "system-uptime" \in dom

\* C8 as stated: formatUptime prints the largest two non-zero units among
\* days, hours and minutes, and never a unit whose value is zero (but "0m").
C8_AsStated ==
    UptimeShown =>
        slots["system-uptime"] = TwoLargestNonZero(telemetry.system.uptime_seconds)

\* C8 amended: formatUptime prints "Xd Yh" when there are days, else "Xh Ym"
\* when there are hours, else "Xm"; the second unit is printed also when it is
\* zero and the minutes are never printed beside days.  It agrees with the
\* two largest non-zero units whenever the unit below the leading one is not
\* zero, and on the four examples.
C8_LeadingUnitAndNext ==
    UptimeShown =>
        LET s == telemetry.system.uptime_seconds
            a == telemetry.app.uptime_seconds
            u == UnitsOf(s)
        IN  /\ slots["system-uptime"] = LeadingUnitAndNext(s)
            /\ slots["app-uptime"] = LeadingUnitAndNext(a)
            /\ (u[1].value > 0 /\ u[2].value > 0) \/ (u[1].value = 0 /\ u[3].value > 0)
                  \/ (u[1].value = 0 /\ u[2].value = 0)
                  => slots["system-uptime"] = TwoLargestNonZero(s)
            /\ a = 0 => slots["app-uptime"] = "0m"
            /\ a = 65 => slots["app-uptime"] = "1m"
            /\ a = 3661 => slots["app-uptime"] = "1h 1m"
            /\ a = 90061 => slots["app-uptime"] = "1d 1h"

\* a whole number of days was formatted: the hours are printed as zero
C8_Witness ==
    /\ UptimeShown
    /\ telemetry.system.uptime_seconds = 86400
    /\ slots["system-uptime"] = "1d 0h"
    /\ telemetry.app.uptime_seconds = 90061

(***************************************************************************)
(* SpecResource: updateAllCharts on snapshots of every load                *)
(***************************************************************************)
Percents == {(100 * i) \div PercentGrid : i \in 0..PercentGrid}

WithLoad(cpu, memory, disk) ==
    [Feed(1) EXCEPT !.system.cpu_percent = cpu, !.system.memory_percent = memory,
                    !.system.disk_percent = disk]

\* updateAllCharts(data) with the snapshot at hand
RedrawCharts ==
    /\ UpdateAllCharts(telemetry, systemHistory, slots)
    /\ lastOp' = "updateAllCharts"
    /\ UNCHANGED <<systemHistory, maxHistoryPoints, dom, statusBadge,
                   cycleVars, now, served, telemetry, demoVars, lastToast>>

InitResource ==
    \E cpu \in Percents, memory \in Percents, disk \in Percents :
        Loaded(AllIds, WithLoad(cpu, memory, disk), "")

SpecResource == InitResource /\ [][RedrawCharts]_vars

\* C9: after a redraw the resource chart holds [cpu, memory, disk, available]
\* with available = max(0, 300 - (cpu + memory + disk)), never negative, and
\* the four values sum to 300 whenever cpu + memory + disk <= 300.
C9_ResourceData ==
    lastOp = "updateAllCharts" =>
        LET cpu == telemetry.system.cpu_percent
            memory == telemetry.system.memory_percent
            disk == telemetry.system.disk_percent
            shown == resourceChart.datasets[1]
        IN  /\ Len(shown) = 4
            /\ shown[1] = cpu /\ shown[2] = memory /\ shown[3] = disk
            /\ shown[4] >= 0
            /\ shown[4] = (IF cpu + memory + disk >= 300 THEN 0
                           ELSE 300 - (cpu + memory + disk))
            /\ cpu + memory + disk <= 300 =>
                  shown[1] + shown[2] + shown[3] + shown[4] = 300
            /\ (cpu = 40 /\ memory = 30 /\ disk = 10) => shown[4] = 220
            /\ (cpu = 100 /\ memory = 100 /\ disk = 100) => shown[4] = 0

\* the fully loaded snapshot was drawn: nothing is available
C9_Witness ==
    /\ lastOp = "updateAllCharts"
    /\ telemetry.system.cpu_percent = 100
    /\ telemetry.system.memory_percent = 100
    /\ telemetry.system.disk_percent = 100
    /\ resourceChart.datasets[1] = <<100, 100, 100, 0>>

(***************************************************************************)
(* updateEnhancedDashboard: one call is a cycle with two awaits            *)
(***************************************************************************)
\* statusBadge.innerHTML = text, when the badge exists
Badge(text) == IF "status-badge" \in dom THEN text ELSE statusBadge

InFlight == {c \in DOMAIN cycles : cycles[c].pc \in {"fetch", "json"}}

\* updateEnhancedDashboard() up to its first await: GET /api/dashboard-data
StartCycle == cycles' = Append(cycles, [pc |-> "fetch"])

\* refreshMetrics(): a refresh button, or the page's timer.  The clock reads
\* a second later at every trigger.
RefreshMetrics ==
    /\ served < MaxCycles
    /\ served' = served + 1
    /\ now' = now + 1
    /\ StartCycle
    /\ lastToast' = Toast("All metrics refreshed!", "info")
    /\ UNCHANGED <<systemHistory, maxHistoryPoints, chartVars, dom, statusBadge,
                   slots, resolved, telemetry, demoVars, lastOp>>

\* fetch() fulfils: the cycle goes on to await response.json()
FetchFulfilled(c) ==
    /\ cycles[c].pc = "fetch"
    /\ cycles' = [cycles EXCEPT ![c].pc = "json"]
    /\ resolved' = Append(resolved, c)
    /\ UNCHANGED <<systemHistory, maxHistoryPoints, chartVars, dom, statusBadge,
                   slots, now, served, telemetry, demoVars, lastToast, lastOp>>

\* mutant: the catch block also drops the history
CycleFailed_reset(c) ==
    /\ cycles' = [cycles EXCEPT ![c].pc = "failed"]
    /\ statusBadge' = Badge("Connection Error")
    /\ systemHistory' = <<>>
    /\ UNCHANGED <<maxHistoryPoints, chartVars, dom, slots,
                   resolved, now, served, telemetry, demoVars, lastToast, lastOp>>

\* the catch block: the badge turns to the error state, nothing else happens
CycleFailed(c) ==
    /\ cycles' = [cycles EXCEPT ![c].pc = "failed"]
    /\ statusBadge' = Badge("Connection Error")
    /\ UNCHANGED <<systemHistory, maxHistoryPoints, chartVars, dom, slots,
                   resolved, now, served, telemetry, demoVars, lastToast, lastOp>>

\* fetch() rejects: a network error
FetchRejected(c) ==
    /\ cycles[c].pc = "fetch"
    /\ CycleFailed(c)

\* response.json() rejects: the body is no JSON
JsonRejected(c) ==
    /\ cycles[c].pc = "json"
    /\ CycleFailed(c)

\* response.json() fulfils with `data`; then, in one run of the event loop
\* (there is no await after line 374): updateEnhancedMetricCards,
\* updateSystemInformation, storeSystemHistory, updateAllCharts, the badge.
\* A statement that throws ends the try block: what was written before it
\* stays, and the catch block sets the badge.
SnapshotReceived(c, data) ==
    LET cards == CardsWritten(slots, data)
        information == SystemInformation(cards.slots, data)
        stored == StoredHistory(systemHistory, data, now, maxHistoryPoints)
        history == BufferAtRedraw(systemHistory, stored)
    IN  /\ cycles[c].pc = "json"
        /\ telemetry' = data
        /\ IF cards.thrown
           THEN /\ cycles' = [cycles EXCEPT ![c].pc = "updateEnhancedMetricCards threw"]
                /\ slots' = cards.slots
                /\ lastOp' = IF slots' = slots THEN lastOp ELSE "cycleFailed"
                /\ statusBadge' = Badge("Connection Error")
                /\ UNCHANGED <<systemHistory, chartVars>>
           ELSE IF ResourceSummary(information, data).thrown
           THEN /\ cycles' = [cycles EXCEPT ![c].pc = "updateAllCharts threw"]
                /\ systemHistory' = stored
                /\ UpdateAllChartsThrown(data, history, information)
                /\ lastOp' = "cycleFailed"
                /\ statusBadge' = Badge("Connection Error")
           ELSE /\ cycles' = [cycles EXCEPT ![c].pc = "done"]
                /\ systemHistory' = stored
                /\ UpdateAllCharts(data, history, information)
                /\ lastOp' = "cycleCompleted"
                /\ statusBadge' = Badge("System Healthy")
        /\ UNCHANGED <<maxHistoryPoints, dom, resolved, now, served, demoVars,
                       lastToast>>

\* response.json() fulfils with the snapshot of this request
JsonFulfilled(c) == SnapshotReceived(c, Feed(c))

\* response.json() fulfils with a body that lacks system.cpu_percent
JsonMalformed(c) == SnapshotReceived(c, WithoutCpu(Feed(c)))

(***************************************************************************)
(* Spec: the dashboard.  It starts either right after                      *)
(* initializeEnhancedDashboard(), whose last statement starts the first    *)
(* cycle, or in the state that WarmCycles cycles run one after the other   *)
(* and updateChartTimeRange with timeRange = '1m' leave behind: the buffer *)
(* full at the lowest bound.                                               *)
(***************************************************************************)
WarmCycles == HistoryPoints1m + 1

RECURSIVE HistoryAfter(_)
\* the buffer after cycles 1..k completed one after the other, bound 50
HistoryAfter(k) ==
    IF k = 0 THEN <<>>
    ELSE StoredHistory(HistoryAfter(k - 1), Feed(k), 0, InitialHistoryPoints)

Initialized(elements) ==
    /\ dom = elements
    /\ systemHistory = <<>>
    /\ maxHistoryPoints = InitialHistoryPoints
    /\ performanceChart = NewPerformanceChart
    /\ resourceChart = NewResourceChart
    /\ appPerformanceChart = NewAppPerformanceChart
    /\ networkChart = NewNetworkChart
    /\ statusBadge = "initial"
    /\ slots = [id \in SlotIds |-> ""]
    /\ cycles = <<[pc |-> "fetch"]>>
    /\ resolved = <<>>
    /\ telemetry = NoTelemetry
    /\ lastToast = NoToast
    /\ lastOp = "initializeEnhancedDashboard"

Warm(elements) ==
    /\ dom = elements
    /\ maxHistoryPoints = BoundFor("1m", InitialHistoryPoints)
    /\ systemHistory = Trimmed(HistoryAfter(WarmCycles), maxHistoryPoints)
    /\ performanceChart = RedrawnPerformance(NewPerformanceChart, HistoryAfter(WarmCycles))
    /\ resourceChart = RedrawnResource(NewResourceChart, Feed(WarmCycles))
    /\ appPerformanceChart =
          RedrawnAppPerformance(NewAppPerformanceChart, HistoryAfter(WarmCycles))
    /\ networkChart = RedrawnNetwork(NewNetworkChart, HistoryAfter(WarmCycles))
    /\ statusBadge = IF "status-badge" \in elements THEN "System Healthy" ELSE "initial"
    /\ slots = ResourceSummary(
                  SystemInformation(MetricCards([id \in SlotIds |-> ""], Feed(WarmCycles)),
                                    Feed(WarmCycles)),
                  Feed(WarmCycles)).slots
    /\ cycles = [c \in 1..WarmCycles |-> [pc |-> "done"]]
    /\ resolved = [c \in 1..WarmCycles |-> c]
    /\ telemetry = Feed(WarmCycles)
    /\ lastToast = Toast("Time range set to 1m", "info")
    /\ lastOp = "updateChartTimeRange"

\* the host pages: the full markup, and one without badge and network chart
Pages == {AllIds, AllIds \ {"status-badge", "networkChart"}}

\* the time ranges selected in the dashboard specification
SelectedRanges == {"1m", "15m"}

Init ==
    /\ \E elements \in Pages : Initialized(elements) \/ Warm(elements)
    /\ timers = 0
    /\ now = 0
    /\ served = 0
    /\ button = [c \in Controls |-> IdleButton]
    /\ traffic = IdleTraffic
    /\ work = IdleWork
    /\ stress = IdleStress

Next ==
    \/ RefreshMetrics
    \/ \E c \in DOMAIN cycles : FetchFulfilled(c)
    \/ \E c \in DOMAIN cycles : FetchRejected(c)
    \/ \E c \in DOMAIN cycles : JsonFulfilled(c)
    \/ \E c \in DOMAIN cycles : JsonRejected(c)
    \/ \E timeRange \in SelectedRanges : UpdateChartTimeRange(timeRange)
    \/ ClearData

Spec == Init /\ [][Next]_vars

\* cycle c leaves its try block through the catch in this step
Fails(c) ==
    /\ c \in DOMAIN cycles
    /\ cycles[c].pc \in {"fetch", "json"}
    /\ cycles'[c].pc = "failed"

\* C4: a cycle whose GET rejects, or whose body is no JSON, leaves the
\* buffer, the bound and every chart as they were, sets the status badge
\* (where the page has one) to 'Connection Error', and schedules no retry:
\* no cycle is started and no timer is set.
C4_FailureLeavesContent ==
    [][\A c \in DOMAIN cycles : Fails(c) =>
          /\ systemHistory' = systemHistory
          /\ maxHistoryPoints' = maxHistoryPoints
          /\ chartVars' = chartVars
          /\ slots' = slots
          /\ statusBadge' = (IF "status-badge" \in dom THEN "Connection Error"
                             ELSE statusBadge)
          /\ Len(cycles') = Len(cycles)
          /\ \A d \in DOMAIN cycles : d # c => cycles'[d] = cycles[d]
          /\ timers' = timers
          /\ lastToast' = lastToast
       ]_vars

\* a cycle failed over a buffer and charts that hold points
C4_Witness ==
    /\ \E c \in DOMAIN cycles : cycles[c].pc = "failed"
    /\ statusBadge = "Connection Error"
    /\ Len(systemHistory) > 0
    /\ Len(performanceChart.labels) > 0
    /\ InFlight = {}

IsEmptied(chart) ==
    /\ Len(chart.labels) = 0
    /\ \A i \in DOMAIN chart.datasets : Len(chart.datasets[i]) = 0

\* C5 as stated: after clearData the buffer is empty and each of the four
\* charts has label and data arrays of length 0.
C5_AsStated ==
    lastOp = "clearData" =>
        /\ Len(systemHistory) = 0
        /\ "performanceChart" \in dom => IsEmptied(performanceChart)
        /\ "resourceChart" \in dom => IsEmptied(resourceChart)
        /\ "appPerformanceChart" \in dom => IsEmptied(appPerformanceChart)
        /\ "networkChart" \in dom => IsEmptied(networkChart)

\* C5 amended: after clearData the buffer is empty and each of the three
\* time-series charts (performance, app-performance, network) has label and
\* data arrays of length 0; the resource chart is not touched and keeps its
\* four labels and four values.
C5_SeriesChartsEmptied ==
    /\ [](lastOp = "clearData" =>
            /\ Len(systemHistory) = 0
            /\ IsEmptied(performanceChart)
            /\ IsEmptied(appPerformanceChart)
            /\ IsEmptied(networkChart)
            /\ Len(resourceChart.labels) = 4
            /\ Len(resourceChart.datasets[1]) = 4)
    /\ [][lastOp' = "clearData" => resourceChart' = resourceChart]_vars

\* the data were cleared after the charts had been drawn
C5_Witness ==
    /\ lastOp = "clearData"
    /\ "performanceChart" \in dom
    /\ resourceChart.datasets[1] # <<0, 0, 0, 100>>
    /\ \E c \in DOMAIN cycles : cycles[c].pc = "done"

\* the cycle whose snapshot a point was derived from
CycleOf(h) == h.network_sent \div 1000

\* the place of cycle c in the order in which the fetch() promises fulfilled
ResolvedAt(c) == CHOOSE i \in DOMAIN resolved : resolved[i] = c

\* C10 as stated: the points of overlapping cycles are ordered by the order
\* in which their fetches resolved.
C10_AsStated ==
    \A i, j \in DOMAIN systemHistory :
        i < j => ResolvedAt(CycleOf(systemHistory[i])) < ResolvedAt(CycleOf(systemHistory[j]))

\* cycle c completes in this step
Completes(c) ==
    /\ c \in DOMAIN cycles
    /\ cycles[c].pc = "json"
    /\ cycles'[c].pc = "done"

\* C10 amended: there is no in-flight guard; every cycle whose fetch and
\* body both succeed appends exactly one point, at the end of the buffer
\* (the oldest point leaves when the bound is exceeded), so the points are
\* ordered by the order in which the response.json() promises, the second
\* await of each cycle, resolved.  That order can differ from the order in
\* which the fetch() promises resolved and from the order of the triggers.
C10_OnePointPerCycle ==
    [][\A c \in DOMAIN cycles : Completes(c) =>
          LET old == systemHistory
              new == systemHistory'
              kept == Min(Len(old), maxHistoryPoints - 1)
          IN  /\ Len(new) = kept + 1
              /\ CycleOf(new[Len(new)]) = c
              /\ \A i \in 1..kept : new[i] = old[Len(old) - kept + i]
              /\ \A i \in 1..kept : CycleOf(new[i]) # c
       ]_vars

\* two overlapping cycles completed against the order of their triggers and
\* against the order in which their fetches resolved, at the bound
C10_Witness ==
    /\ Len(systemHistory) = maxHistoryPoints
    /\ \E i \in DOMAIN systemHistory : \E j \in DOMAIN systemHistory :
          /\ i < j
          /\ CycleOf(systemHistory[i]) > CycleOf(systemHistory[j])
          /\ ResolvedAt(CycleOf(systemHistory[i])) > ResolvedAt(CycleOf(systemHistory[j]))

\* cycle c reaches the end of its try block in this step
Succeeds(c) ==
    /\ c \in DOMAIN cycles
    /\ cycles[c].pc # "done"
    /\ cycles'[c].pc = "done"

\* the arrays of a time-series chart are those of the buffer, point by point
DrawnFrom(chart, history, series) ==
    /\ chart.labels = [i \in DOMAIN history |-> history[i].timestamp]
    /\ Len(chart.datasets) = Len(series)
    /\ \A s \in DOMAIN series :
          chart.datasets[s] = [i \in DOMAIN history |-> history[i][series[s]]]

PerformanceSeries == <<"cpu", "memory", "disk", "app_memory">>
AppPerformanceSeries == <<"app_cpu", "connections">>
NetworkSeries == <<"network_sent", "network_recv">>

\* each time-series chart the page has shows exactly the buffer `history`
ChartsShow(performance, appPerformance, network, history) ==
    /\ "performanceChart" \in dom => DrawnFrom(performance, history, PerformanceSeries)
    /\ "appPerformanceChart" \in dom =>
          DrawnFrom(appPerformance, history, AppPerformanceSeries)
    /\ "networkChart" \in dom => DrawnFrom(network, history, NetworkSeries)

\* C11: a cycle runs fetch, card update, history append, chart redraw in that
\* order, and nothing runs between the card update and the redraw: a cycle
\* completes only after its fetch resolved, and in the one step in which it
\* completes the cards show its snapshot, its point is the newest of the
\* buffer, and the labels and every series of each time-series chart are the
\* timestamps and the values of the buffer as the append left it, in the
\* buffer's order and length.  The charts stay so while that cycle is the
\* operation that ran last.
C11_RedrawnFromBuffer ==
    /\ [][\A c \in DOMAIN cycles : Succeeds(c) =>
             /\ cycles[c].pc = "json"
             /\ \E i \in DOMAIN resolved : resolved[i] = c
             /\ "cpu-usage" \in dom =>
                   slots'["cpu-usage"] = Percentage(Feed(c).system.cpu_percent)
             /\ "system-uptime" \in dom =>
                   slots'["system-uptime"] = formatUptime(Feed(c).system.uptime_seconds)
             /\ Len(systemHistory') > 0
             /\ systemHistory'[Len(systemHistory')] = HistoryPoint(Feed(c), now)
             /\ Len(systemHistory') = Min(Len(systemHistory) + 1, maxHistoryPoints)
             /\ ChartsShow(performanceChart', appPerformanceChart', networkChart',
                           systemHistory')
             /\ "performanceChart" \in dom =>
                   Len(performanceChart'.labels) = Len(systemHistory')
          ]_vars
    /\ [](lastOp = "cycleCompleted" =>
             ChartsShow(performanceChart, appPerformanceChart, networkChart,
                        systemHistory))

\* a cycle completed over the full buffer while another one was in flight:
\* the charts show the buffer, its point included
C11_Witness ==
    /\ lastOp = "cycleCompleted"
    /\ InFlight # {}
    /\ Len(systemHistory) = HistoryPoints1m
    /\ maxHistoryPoints = HistoryPoints1m
    /\ CycleOf(systemHistory[Len(systemHistory)]) > WarmCycles
    /\ Len(performanceChart.labels) = HistoryPoints1m
    /\ performanceChart.datasets[1][HistoryPoints1m] =
          systemHistory[HistoryPoints1m].cpu
    /\ "networkChart" \in dom
    /\ networkChart.datasets[1][HistoryPoints1m] = 1000 * (WarmCycles + 1)

\* updateChartTimeRange ran in this step and changed something
TimeRangeStep ==
    /\ lastOp' = "updateChartTimeRange"
    /\ \E timeRange \in TimeRanges : ChosenRange(lastToast', timeRange)
    /\ <<maxHistoryPoints, systemHistory, lastToast, lastOp>>'
          # <<maxHistoryPoints, systemHistory, lastToast, lastOp>>

\* clearData ran in this step and changed something
ClearStep ==
    /\ lastOp' = "clearData"
    /\ lastToast' = Toast("Chart data cleared!", "info")
    /\ systemHistory' = <<>>
    /\ <<systemHistory, chartVars, lastToast, lastOp>>'
          # <<systemHistory, chartVars, lastToast, lastOp>>

\* the chart `id` holds more points than the bound and than the buffer
Lagging(id, chart, bound, history) ==
    /\ id \in dom
    /\ Len(chart.labels) > bound
    /\ Len(chart.labels) > Len(history)

\* a time-series chart lags in this state and still lags in the next
StaysLagging(id, chart, chartNext) ==
    Lagging(id, chart, maxHistoryPoints, systemHistory)
       => /\ Lagging(id, chartNext, maxHistoryPoints', systemHistory')
          /\ chartNext = chart

SnapshotPages ==
    {AllIds,
     AllIds \ {"cpu-usage"},
     AllIds \ {"cpu-usage", "status-badge"},
     AllIds \ {"cpu-usage", "resource-cpu"}}

InitSnapshots ==
    /\ \E elements \in SnapshotPages : Initialized(elements) \/ Warm(elements)
    /\ timers = 0
    /\ now = 0
    /\ served = 0
    /\ button = [c \in Controls |-> IdleButton]
    /\ traffic = IdleTraffic
    /\ work = IdleWork
    /\ stress = IdleStress

NextSnapshots ==
    \/ RefreshMetrics
    \/ \E c \in DOMAIN cycles : FetchFulfilled(c)
    \/ \E c \in DOMAIN cycles : JsonFulfilled(c)
    \/ \E c \in DOMAIN cycles : JsonMalformed(c)
    \/ UpdateChartTimeRange("15m")

SpecSnapshots == InitSnapshots /\ [][NextSnapshots]_vars

\* cycle c, having read its body, leaves the try block by an exception
Throws(c) ==
    /\ c \in DOMAIN cycles
    /\ cycles[c].pc = "json"
    /\ cycles'[c].pc \in {"updateEnhancedMetricCards threw", "updateAllCharts threw"}

\* every point of `old` is in `new`, unaltered and at its place
KeepsAll(old, new) ==
    /\ Len(new) >= Len(old)
    /\ \A i \in DOMAIN old : new[i] = old[i]

\* C12 as stated: a cycle that throws on a malformed snapshot removes and
\* alters no point the buffer held before it; when updateAllCharts throws,
\* the point of the cycle is in the buffer and the badge shows the error.
C12_AsStated ==
    [][\A c \in DOMAIN cycles : Throws(c) =>
          /\ KeepsAll(systemHistory, systemHistory')
          /\ cycles'[c].pc = "updateAllCharts threw" =>
                /\ systemHistory'[Len(systemHistory')] = HistoryPoint(telemetry', now)
                /\ "status-badge" \in dom => statusBadge' = "Connection Error"
      ]_vars

\* C12 amended: a cycle that throws on a malformed snapshot is not rolled
\* back.  When updateEnhancedMetricCards throws, the buffer and the charts
\* are as before.  When updateAllCharts throws, storeSystemHistory has run:
\* the point of the cycle is the newest of the buffer and stays there, the
\* points before it are unaltered and in their order, and the oldest of them
\* is gone when the buffer was full, as after any append; the performance
\* and resource charts are redrawn, the other two are not.  In both cases
\* the badge (where the page has one) shows 'Connection Error' and no cycle
\* is started.
C12_NotRolledBack ==
    [][\A c \in DOMAIN cycles : Throws(c) =>
          /\ telemetry'.system.cpu_percent = Undefined
          /\ "status-badge" \in dom => statusBadge' = "Connection Error"
          /\ "status-badge" \notin dom => statusBadge' = statusBadge
          /\ Len(cycles') = Len(cycles)
          /\ timers' = timers
          /\ maxHistoryPoints' = maxHistoryPoints
          /\ cycles'[c].pc = "updateEnhancedMetricCards threw" =>
                /\ "cpu-usage" \in dom
                /\ systemHistory' = systemHistory
                /\ chartVars' = chartVars
                /\ slots' = slots
          /\ cycles'[c].pc = "updateAllCharts threw" =>
                LET old == systemHistory
                    new == systemHistory'
                    kept == Min(Len(old), maxHistoryPoints - 1)
                IN  /\ "cpu-usage" \notin dom
                    /\ Len(new) = kept + 1
                    /\ new[Len(new)] = HistoryPoint(telemetry', now)
                    /\ new[Len(new)].cpu = Undefined
                    /\ CycleOf(new[Len(new)]) = c
                    /\ \A i \in 1..kept : new[i] = old[Len(old) - kept + i]
                    /\ Len(old) < maxHistoryPoints => KeepsAll(old, new)
                    /\ DrawnFrom(performanceChart', new, PerformanceSeries)
                    /\ resourceChart'.datasets[1][4] = NaN
                    /\ appPerformanceChart' = appPerformanceChart
                    /\ networkChart' = networkChart
      ]_vars

\* updateAllCharts threw over the full buffer: the point of the cycle is the
\* newest, the oldest point left, the badge shows the error
C12_Witness ==
    /\ \E c \in DOMAIN cycles :
          /\ cycles[c].pc = "updateAllCharts threw"
          /\ CycleOf(systemHistory[Len(systemHistory)]) = c
    /\ lastOp = "cycleFailed"
    /\ statusBadge = "Connection Error"
    /\ maxHistoryPoints = HistoryPoints1m
    /\ Len(systemHistory) = HistoryPoints1m
    /\ systemHistory[Len(systemHistory)].cpu = Undefined
    /\ CycleOf(systemHistory[1]) = WarmCycles - HistoryPoints1m + 2
    /\ Len(appPerformanceChart.labels) = WarmCycles

(***************************************************************************)
(* The demo controls: generateTraffic, simulateWork, stressTest            *)
(***************************************************************************)
dashboardVars == <<systemHistory, maxHistoryPoints, chartVars, dom, statusBadge,
                   slots, resolved, now, telemetry, lastOp>>

\* button.innerHTML = label; button.disabled = true
Busy(label) == [disabled |-> TRUE, innerHTML |-> label]

\* mutant: the finally block restores the label and leaves the control disabled
Restored_labelOnly(originalText) == [disabled |-> TRUE, innerHTML |-> originalText]

\* the finally block: button.innerHTML = originalText; button.disabled = false
Restored(originalText) == [disabled |-> FALSE, innerHTML |-> originalText]

\* mutant: the requests are pushed without .catch(() => {})
Swallowed_not(fulfils) == fulfils

\* fetch(url).catch(() => {}): the promise pushed fulfils either way
Swallowed(fulfils) == TRUE

RECURSIVE TrafficPromisesFrom(_, _)
\* the promises pushed by the iterations i..count-1 of the loop
TrafficPromisesFrom(i, count) ==
    IF i >= count THEN <<>>
    ELSE <<"/api/health">>
         \o (IF i % 5 = 0 THEN <<"/api/metrics">> ELSE <<>>)
         \o (IF i % 10 = 0 THEN <<"/api/users">> ELSE <<>>)
         \o TrafficPromisesFrom(i + 1, count)

\* generateTraffic(count) up to await Promise.all(promises); a disabled
\* control fires no click
GenerateTraffic(count) ==
    /\ ~button["generateTraffic"].disabled
    /\ traffic.pc = "idle"
    /\ timers + served < MaxBatches
    /\ button' = [button EXCEPT !["generateTraffic"] = Busy("Generating Traffic...")]
    /\ lastToast' = Toast("Firing " \o ToString(count) \o " requests...", "info")
    /\ traffic' = [pc |-> "await", count |-> count,
                   originalText |-> button["generateTraffic"].innerHTML,
                   promises |-> TrafficPromisesFrom(0, count),
                   pending |-> Len(TrafficPromisesFrom(0, count)),
                   rejected |-> 0]
    /\ UNCHANGED <<dashboardVars, cycles, served, timers, work, stress>>

\* one of the requests settles.  Which one does not matter: the promises
\* are all wrapped alike, so the call keeps their number.  A wrapped promise
\* that rejected would reject Promise.all and run the catch block.
TrafficSettled(fulfils) ==
    /\ traffic.pc = "await"
    /\ traffic.pending > 0
    /\ IF Swallowed(fulfils)
       THEN /\ traffic' = [traffic EXCEPT
                             !.pending = @ - 1,
                             !.rejected = IF fulfils THEN @ ELSE @ + 1]
            /\ UNCHANGED <<button, lastToast>>
       ELSE /\ traffic' = [IdleTraffic EXCEPT !.count = traffic.count]
            /\ lastToast' = Toast("Error generating traffic", "error")
            /\ button' = [button EXCEPT
                            !["generateTraffic"] = Restored(traffic.originalText)]
    /\ UNCHANGED <<dashboardVars, cycles, served, timers, work, stress>>

\* Promise.all fulfilled: the success toast, the refresh timer, finally
TrafficCompleted ==
    /\ traffic.pc = "await"
    /\ traffic.pending = 0
    /\ lastToast' = Toast(ToString(traffic.count) \o " requests completed!", "success")
    /\ timers' = timers + 1
    /\ button' = [button EXCEPT !["generateTraffic"] = Restored(traffic.originalText)]
    /\ traffic' = [traffic EXCEPT !.pc = "idle"]
    /\ UNCHANGED <<dashboardVars, cycles, served, work, stress>>

\* setTimeout(updateEnhancedDashboard, 500) fires
RefreshTimerFired ==
    /\ timers > 0
    /\ timers' = timers - 1
    /\ served' = served + 1
    /\ StartCycle
    /\ UNCHANGED <<dashboardVars, button, traffic, work, stress, lastToast>>

\* simulateWork() up to await fetch('/api/simulate-work')
SimulateWork ==
    /\ ~button["simulateWork"].disabled
    /\ work.pc = "idle"
    /\ button' = [button EXCEPT !["simulateWork"] = Busy("Working...")]
    /\ work' = [pc |-> "fetch", originalText |-> button["simulateWork"].innerHTML]
    /\ UNCHANGED <<dashboardVars, cycles, served, timers, traffic, stress, lastToast>>

\* fetch fulfils: on to await response.json()
WorkFetched ==
    /\ work.pc = "fetch"
    /\ work' = [work EXCEPT !.pc = "json"]
    /\ UNCHANGED <<dashboardVars, cycles, served, timers, button, traffic, stress,
                   lastToast>>

\* response.json() fulfils: the success toast, finally
WorkCompleted ==
    /\ work.pc = "json"
    /\ lastToast' = Toast("Work simulation completed!", "success")
    /\ button' = [button EXCEPT !["simulateWork"] = Restored(work.originalText)]
    /\ work' = [work EXCEPT !.pc = "idle"]
    /\ UNCHANGED <<dashboardVars, cycles, served, timers, traffic, stress>>

\* fetch or response.json() rejects: the error toast, finally
WorkFailed ==
    /\ work.pc \in {"fetch", "json"}
    /\ lastToast' = Toast("Error simulating work", "error")
    /\ button' = [button EXCEPT !["simulateWork"] = Restored(work.originalText)]
    /\ work' = [work EXCEPT !.pc = "idle"]
    /\ UNCHANGED <<dashboardVars, cycles, served, timers, traffic, stress>>

\* stressTest() up to await Promise.all(promises): five bare fetches
StressTest ==
    /\ ~button["stressTest"].disabled
    /\ stress.pc = "idle"
    /\ stress.orphans <= MaxOrphans
    /\ button' = [button EXCEPT !["stressTest"] = Busy("Testing...")]
    /\ stress' = [stress EXCEPT !.pc = "await",
                                !.originalText = button["stressTest"].innerHTML,
                                !.pending = StressRequests]
    /\ UNCHANGED <<dashboardVars, cycles, served, timers, traffic, work, lastToast>>

\* one of the five fetches fulfils
StressFetched ==
    /\ stress.pc = "await"
    /\ stress.pending > 0
    /\ stress' = [stress EXCEPT !.pending = @ - 1]
    /\ UNCHANGED <<dashboardVars, cycles, served, timers, button, traffic, work,
                   lastToast>>

\* Promise.all fulfilled: the toast (of type warning), finally
StressCompleted ==
    /\ stress.pc = "await"
    /\ stress.pending = 0
    /\ lastToast' = Toast("CPU stress test completed!", "warning")
    /\ button' = [button EXCEPT !["stressTest"] = Restored(stress.originalText)]
    /\ stress' = [stress EXCEPT !.pc = "idle"]
    /\ UNCHANGED <<dashboardVars, cycles, served, timers, traffic, work>>

\* one of the five fetches rejects: Promise.all rejects at once, the error
\* toast, finally; the other fetches stay outstanding
StressFailed ==
    /\ stress.pc = "await"
    /\ stress.pending > 0
    /\ lastToast' = Toast("Stress test failed", "error")
    /\ button' = [button EXCEPT !["stressTest"] = Restored(stress.originalText)]
    /\ stress' = [stress EXCEPT !.pc = "idle", !.pending = 0,
                                !.orphans = @ + stress.pending - 1]
    /\ UNCHANGED <<dashboardVars, cycles, served, timers, traffic, work>>

\* a fetch of a stress test that failed settles: nobody waits for it
StressOrphanSettled ==
    /\ stress.orphans > 0
    /\ stress' = [stress EXCEPT !.orphans = @ - 1]
    /\ UNCHANGED <<dashboardVars, cycles, served, timers, button, traffic, work,
                   lastToast>>

(***************************************************************************)
(* SpecTraffic: generateTraffic with every count up to MaxCount            *)
(***************************************************************************)
InitControls == Loaded(AllIds, NoTelemetry, "")

NextTraffic ==
    \/ \E count \in 0..MaxCount : GenerateTraffic(count)
    \/ \E fulfils \in BOOLEAN : TrafficSettled(fulfils)
    \/ TrafficCompleted
    \/ RefreshTimerFired

SpecTraffic == InitControls /\ [][NextTraffic]_vars

(***************************************************************************)
(* SpecControls: the three controls side by side.  Every request issued    *)
(* settles, and a continuation that is ready runs.                         *)
(***************************************************************************)
NextControls ==
    \/ \E count \in 0..MaxBurst : GenerateTraffic(count)
    \/ \E fulfils \in BOOLEAN : TrafficSettled(fulfils)
    \/ TrafficCompleted
    \/ RefreshTimerFired
    \/ SimulateWork
    \/ WorkFetched
    \/ WorkCompleted
    \/ WorkFailed
    \/ StressTest
    \/ StressFetched
    \/ StressCompleted
    \/ StressFailed
    \/ StressOrphanSettled

SpecControls ==
    /\ InitControls
    /\ [][NextControls]_vars
    /\ WF_vars(\E fulfils \in BOOLEAN : TrafficSettled(fulfils))
    /\ WF_vars(TrafficCompleted)
    /\ WF_vars(WorkFetched \/ WorkFailed)
    /\ WF_vars(WorkCompleted \/ WorkFailed)
    /\ WF_vars(StressFetched \/ StressFailed)
    /\ WF_vars(StressCompleted)

\* the handler of the control is between its first statement and its finally
Running(c) ==
    CASE c = "generateTraffic" -> traffic.pc # "idle"
      [] c = "simulateWork" -> work.pc # "idle"
      [] c = "stressTest" -> stress.pc # "idle"

BusyLabel(c) ==
    CASE c = "generateTraffic" -> "Generating Traffic..."
      [] c = "simulateWork" -> "Working..."
      [] c = "stressTest" -> "Testing..."

\* C6: while generateTraffic, simulateWork or stressTest runs, its control
\* is disabled and shows the busy label; when every request settles, the
\* control is enabled again with its original label, whether the requests
\* fulfilled or rejected; a control is never left disabled by a call that
\* has ended.
C6_ControlRestored ==
    /\ [](\A c \in Controls :
            /\ Running(c) => button[c] = [disabled |-> TRUE, innerHTML |-> BusyLabel(c)]
            /\ ~Running(c) => button[c] = [disabled |-> FALSE, innerHTML |-> "original"])
    /\ \A c \in Controls :
          button[c].disabled ~> (~button[c].disabled /\ button[c].innerHTML = "original")

\* a stress test ended on its first rejection, with four requests still
\* outstanding, while the other two controls were busy
C6_Witness ==
    /\ lastToast = Toast("Stress test failed", "error")
    /\ stress.pc = "idle"
    /\ stress.orphans = StressRequests - 1
    /\ ~button["stressTest"].disabled
    /\ button["generateTraffic"].disabled
    /\ button["simulateWork"].disabled

\* how many of the promises are requests to the endpoint
Issued(promises, endpoint) ==
    Cardinality({k \in DOMAIN promises : promises[k] = endpoint})

\* C7: generateTraffic(count) issues count GETs to /api/health, one to
\* /api/metrics for each i in 0..count-1 with i mod 5 = 0 and one to
\* /api/users for each i with i mod 10 = 0 (25, 5 and 3 for count = 25);
\* whichever of them reject, the batch ends with the success notification
\* once all have settled, and never with the error notification.
C7_TrafficBatch ==
    /\ [](traffic.pc = "await" =>
            LET n == traffic.count
            IN  /\ Issued(traffic.promises, "/api/health") = n
                /\ Issued(traffic.promises, "/api/metrics")
                      = Cardinality({i \in 0..(n - 1) : i % 5 = 0})
                /\ Issued(traffic.promises, "/api/users")
                      = Cardinality({i \in 0..(n - 1) : i % 10 = 0})
                /\ n = 25 => /\ Issued(traffic.promises, "/api/metrics") = 5
                              /\ Issued(traffic.promises, "/api/users") = 3
                /\ traffic.pending + traffic.rejected <= Len(traffic.promises))
    /\ [](lastToast.type # "error")
    /\ [][traffic.pc = "await" /\ traffic'.pc = "idle" =>
            /\ traffic.pending = 0
            /\ lastToast' = Toast(ToString(traffic.count) \o " requests completed!",
                                  "success")]_vars

\* the batch of the default count completed although all its 33 requests
\* rejected
C7_Witness ==
    /\ traffic.pc = "idle"
    /\ traffic.count = DefaultCount
    /\ traffic.rejected = 33
    /\ lastToast = Toast("25 requests completed!", "success")

====
